---- MODULE Spec2Model ----
(***************************************************************************)
(* A model of the S3 storage driver (storagedriver/s3/s3.go).              *)
(*                                                                         *)
(* Byte counts (sizes, offsets, chunk sizes) are counted in units of       *)
(* 1 MiB = 1024 * 1024 bytes, so minChunkSize, 5 * 1024 * 1024 bytes in    *)
(* the source, is 5 here.  size / chunkSize and offset % chunkSize are     *)
(* the same in both units for whole numbers of MiB.                        *)
(*                                                                         *)
(* Five specifications share the variables:                                *)
(*   SpecChunk  the chunk-size loop of WriteStream as a pure function,     *)
(*   Spec       WriteStream and CurrentSize over the multipart sessions,   *)
(*   SpecLong   Spec's WriteStream with readers past the declared size,    *)
(*   SpecConc   two writers, one WriteStream call each, interleaved,       *)
(*   SpecObj    PutContent, GetContent, ReadStream, Move and Delete.       *)
(***************************************************************************)
EXTENDS Integers, Sequences, FiniteSets, TLC

VARIABLES
    planSize,   \* SpecChunk: the declared size handed to the chunk-size loop
    planChunk,  \* SpecChunk: the chunk size derived from it (0: not derived yet)
    size,       \* Spec: the declared size of the object being written
    multis,     \* the bucket's open multipart uploads: UploadId -> [key, parts]
    usedIds,    \* UploadIds the store has handed out so far
    objects,    \* the bucket's objects: key -> content
    call,       \* Spec: the WriteStream calls in flight: writer -> frame
    cur,        \* Spec: what the last CurrentSize call returned
    honest,     \* Spec: every call so far resumed at the committed byte count
    op          \* SpecObj: the last call of the facade and how it ended

vars == <<planSize, planChunk, size, multis, usedIds, objects, call, cur, honest, op>>

----------------------------------------------------------------------------
(* Constants of the source and bounds of the model *)

\* The minimum multipart chunk size, 5 MiB.
minChunkSize == 5

\* The largest number of parts one request lists.
listPartsMax == 1000

\* SpecChunk draws the declared size from 0 .. MaxPlanSize.
MaxPlanSize == 20010

\* The chunk sizes compared are minChunkSize * 2^k for k in 0 .. MaxDoublings.
MaxDoublings == 4

----------------------------------------------------------------------------
(* Chunk planner: WriteStream, lines 139-142 *)

\* The loop condition with > in place of >=.
loopCondGt(sz, c) == sz \div c > listPartsMax

\* for size/chunkSize >= listPartsMax
loopCond(sz, c) == sz \div c >= listPartsMax

RECURSIVE chunkLoop(_, _)
chunkLoop(sz, c) == IF loopCond(sz, c) THEN chunkLoop(sz, c * 2) ELSE c

\* chunkSize := minChunkSize; for ... { chunkSize *= 2 }
deriveChunkSize(sz) == chunkLoop(sz, minChunkSize)

\* ceil(a / b)
CeilDiv(a, b) == (a + b - 1) \div b

\* minChunkSize * 2^k
RECURSIVE Pow2(_)
Pow2(k) == IF k = 0 THEN 1 ELSE 2 * Pow2(k - 1)

----------------------------------------------------------------------------
(* Keys, bytes and the store's data *)

\* A key is a sequence of characters: "/a" is a string prefix of "/ab" and of
\* "/a/b", and only "/a/b" is in a subpath of "/a".
KeyA == <<"/", "a">>

KeyAB == <<"/", "a", "b">>

KeyASlashB == <<"/", "a", "/", "b">>

\* The path WriteStream and CurrentSize are called with in Spec.
WritePaths == {KeyA}

\* The keys of SpecObj.
Keys == {KeyA, KeyAB, KeyASlashB}

\* The contents PutContent stores in SpecObj.
Contents == {<<1>>, <<2>>}

\* Spec draws the declared size from 0 .. MaxSize.
MaxSize == 12

\* Spec draws the offset of a call from 0 .. size + MaxBeyond.
MaxBeyond == 3

\* The store hands out UploadIds 1 .. MaxUploads.
MaxUploads == 2

UploadIds == 1 .. MaxUploads

\* SpecLong lets the reader of a call hold up to MaxExtra bytes past the declared size.
MaxExtra == 10

\* SpecConc draws the declared size from 0 .. MaxConcSize.
MaxConcSize == 10

\* SpecObj draws the offset of a ReadStream call from 0 .. MaxReadOffset.
MaxReadOffset == 1

\* The nil *s3.Multi.
NoMulti == 0

\* The byte at position p (1-based) of the content being written is p, so
\* that a byte stored at the wrong place or missing is seen.
Bytes(from, n) == [i \in 1 .. n |-> from + i]

Original(sz) == Bytes(0, sz)

\* The bytes n of them from position from on, of the stream writer w supplies:
\* writer 1 supplies the content, another writer bytes that differ from it at
\* every position.
StreamBytes(w, from, n) == [i \in 1 .. n |-> (w - 1) * 100 + from + i]

Min(a, b) == IF a <= b THEN a ELSE b

MinOf(S) == CHOOSE x \in S : \A y \in S : x <= y

MaxOf(S) == CHOOSE x \in S : \A y \in S : x >= y

RECURSIVE SortedSeq(_)
SortedSeq(S) == IF S = {} THEN <<>> ELSE <<MinOf(S)>> \o SortedSeq(S \ {MinOf(S)})

RECURSIVE Flatten(_)
Flatten(ss) == IF ss = <<>> THEN <<>> ELSE Head(ss) \o Flatten(Tail(ss))

IsPrefix(p, k) == Len(p) <= Len(k) /\ SubSeq(k, 1, Len(p)) = p

\* A function with the empty domain: a session without parts, a bucket without objects.
Empty == [x \in {} |-> <<>>]

\* f with x mapped to v (x added to the domain when it is not in it).
Put(f, x, v) == [y \in DOMAIN f \cup {x} |-> IF y = x THEN v ELSE f[y]]

\* f without x.
Drop(f, x) == [y \in DOMAIN f \ {x} |-> f[y]]

----------------------------------------------------------------------------
(* The store's multipart calls, as the driver uses them *)

\* Bucket.ListMulti(path, ""): the open uploads whose key starts with path.
storeListMulti(path) == {id \in DOMAIN multis : IsPrefix(path, multis[id].key)}

\* multi.ListParts(): the parts of the upload, ordered by part number; the
\* ETag of a part stands for its content.
storeListParts(id) ==
    LET ps == multis[id].parts
        ns == SortedSeq(DOMAIN ps)
    IN  [i \in 1 .. Len(ns) |-> [N |-> ns[i], Size |-> Len(ps[ns[i]]), ETag |-> ps[ns[i]]]]

\* multi.PutPart(n, data): part n of the upload is (over)written.
storePutPart(id, n, data) ==
    [multis EXCEPT ![id].parts = Put(@, n, data)]

\* multi.Complete(parts) is accepted when every part named exists with the ETag named.
storeCanComplete(id, parts) ==
    /\ id \in DOMAIN multis
    /\ \A i \in 1 .. Len(parts) :
          /\ parts[i].N \in DOMAIN multis[id].parts
          /\ multis[id].parts[parts[i].N] = parts[i].ETag

\* The object multi.Complete(parts) assembles: the named parts in part-number order.
storeAssemble(parts) ==
    LET ns == SortedSeq({parts[i].N : i \in 1 .. Len(parts)})
        at(n) == CHOOSE i \in 1 .. Len(parts) : parts[i].N = n
    IN  Flatten([k \in 1 .. Len(ns) |-> parts[at(ns[k])].ETag])

----------------------------------------------------------------------------
(* Session resolution and size accounting *)

\* getHighestIDMulti's loop over a non-empty listing: the highest UploadId
\* among the uploads whose key equals path, nil when there is none.
highestIDMulti(path, listing) ==
    LET exact == {id \in listing : multis[id].key = path}
    IN  IF exact = {} THEN NoMulti ELSE MaxOf(exact)

\* CurrentSize's result from the parts list with the last part counted at the
\* size of the first.
currentSizeOfUniform(parts) ==
    IF Len(parts) = 0 THEN 0 ELSE Len(parts) * parts[1].Size

\* CurrentSize's result from the parts list.
currentSizeOf(parts) ==
    IF Len(parts) = 0
    THEN 0
    ELSE (Len(parts) - 1) * parts[1].Size + parts[Len(parts)].Size

\* The offset test of WriteStream without the alignment test.
invalidOffsetNoAlign(offset, nparts, chunkSize, sz) ==
    offset > nparts * chunkSize

\* An offset test that also rejects the offset at the end of the existing parts.
invalidOffsetStrict(offset, nparts, chunkSize, sz) ==
    \/ offset > nparts * chunkSize
    \/ (nparts > 0 /\ offset = nparts * chunkSize)
    \/ (offset < sz /\ offset % chunkSize # 0)

\* if (offset) > uint64(len(parts))*chunkSize || (offset < size && offset%chunkSize != 0)
invalidOffset(offset, nparts, chunkSize, sz) ==
    \/ offset > nparts * chunkSize
    \/ (offset < sz /\ offset % chunkSize # 0)

----------------------------------------------------------------------------
(* WriteStream: one action per store call, and one for the read of a chunk *)

Idle ==
    [pc |-> "idle", path |-> <<>>, offset |-> 0, chunkSize |-> 0, partNumber |-> 0, totalRead |-> 0, multi |-> NoMulti,
     listed |-> -1, parts |-> <<>>, buf |-> <<>>, result |-> "none",
     exit |-> "none", closed |-> 0, puts |-> 0, failed |-> "none",
     completed |-> FALSE, readErr |-> FALSE,
     resume |-> [session |-> NoMulti, k |-> 0]]

NoCur == [path |-> <<>>, result |-> "none", value |-> 0]

NoOp == [pc |-> "idle"]

Writers == DOMAIN call

\* A return that skips the deferred reader.Close().
returnNoClose(c, res, how) ==
    [Idle EXCEPT !.pc = "done", !.result = res, !.exit = how, !.closed = c.closed,
                 !.path = c.path, !.offset = c.offset, !.chunkSize = c.chunkSize,
                 !.totalRead = c.totalRead, !.listed = c.listed, !.puts = c.puts,
                 !.failed = c.failed, !.completed = c.completed,
                 !.readErr = c.readErr, !.resume = c.resume]

\* A return statement of WriteStream; the deferred reader.Close() of line 137
\* runs on every one of them, and on a panic.  The locals of the call (buf,
\* parts, multi, partNumber) end with it; what is kept records the call.
return(c, res, how) ==
    [Idle EXCEPT !.pc = "done", !.result = res, !.exit = how, !.closed = c.closed + 1,
                 !.path = c.path, !.offset = c.offset, !.chunkSize = c.chunkSize,
                 !.totalRead = c.totalRead, !.listed = c.listed, !.puts = c.puts,
                 !.failed = c.failed, !.completed = c.completed,
                 !.readErr = c.readErr, !.resume = c.resume]

\* What CurrentSize would report for path: the caller's view of the committed bytes.
committed(path) ==
    LET m == highestIDMulti(path, storeListMulti(path))
    IN  IF m = NoMulti THEN 0 ELSE currentSizeOf(storeListParts(m))

\* What a call that starts now on path at offset resumes: the upload and the
\* number k of its parts, when the writer's last call was on the same path and
\* stopped on a short read or failed at a read or a part upload, and offset
\* is k * chunkSize; the nil upload otherwise.
resumeOf(w, path, offset) ==
    LET ids == {id \in DOMAIN multis : multis[id].key = path}
        id == CHOOSE i \in ids : TRUE
        k == Cardinality(DOMAIN multis[id].parts)
    IN  IF /\ call[w].pc = "done" /\ call[w].path = path
           /\ call[w].exit \in {"short", "read", "put"}
           /\ Cardinality(ids) = 1
           /\ offset = k * deriveChunkSize(size)
        THEN [session |-> id, k |-> k]
        ELSE [session |-> NoMulti, k |-> 0]

\* The caller hands WriteStream a path, an offset and a reader over the bytes
\* of the content from that offset on; lines 137-145.  Where the reader ends
\* (at the declared size, or before it when the source ends early) shows at
\* the reads.
Begin(w, path, offset) ==
    /\ \A v \in Writers : call[v].pc \in {"idle", "done"}
    /\ call' = [call EXCEPT ![w] =
                  [Idle EXCEPT !.pc = "listMulti", !.path = path, !.offset = offset,
                               !.chunkSize = deriveChunkSize(size),
                               !.partNumber = 1, !.totalRead = 0,
                               !.resume = resumeOf(w, path, offset)]]
    /\ honest' = (honest /\ offset = committed(path))
    /\ cur' = NoCur
    /\ UNCHANGED <<planSize, planChunk, size, multis, usedIds, objects, op>>

\* A start of a writer's call that waits until no other call is running.
BeginLocked(w, path, offset) ==
    /\ call[w].pc = "idle"
    /\ Begin(w, path, offset)

\* The start of a writer's one call while the other writer's call may be
\* running: WriteStream takes no lock and keeps its state in locals, lines
\* 136-145.
BeginConc(w, path, offset) ==
    /\ call[w].pc = "idle"
    /\ call' = [call EXCEPT ![w] =
                  [Idle EXCEPT !.pc = "listMulti", !.path = path, !.offset = offset,
                               !.chunkSize = deriveChunkSize(size),
                               !.partNumber = 1, !.totalRead = 0,
                               !.resume = resumeOf(w, path, offset)]]
    /\ honest' = (honest /\ offset = committed(path))
    /\ cur' = NoCur
    /\ UNCHANGED <<planSize, planChunk, size, multis, usedIds, objects, op>>

\* getHighestIDMulti, lines 283-298: Bucket.ListMulti and the choice among its
\* result.  A NoSuchUpload error is taken as an empty listing.
ListMulti(w) ==
    /\ call[w].pc = "listMulti"
    /\ \/ LET listing == storeListMulti(call[w].path)
          IN  call' = [call EXCEPT ![w] =
                  IF listing # {}
                  THEN [@ EXCEPT !.pc = "listParts",
                                 !.multi = highestIDMulti(call[w].path, listing)]
                  ELSE [@ EXCEPT !.pc = "initMulti"]]
       \/ call' = [call EXCEPT ![w] =
                     return([@ EXCEPT !.failed = "ListMulti"], "StoreError", "resolve")]
    /\ UNCHANGED <<planSize, planChunk, size, multis, usedIds, objects, cur, honest, op>>

\* getHighestIDMulti, lines 299-300: Bucket.InitMulti opens a new upload.
InitMulti(w) ==
    /\ call[w].pc = "initMulti"
    /\ \/ \E id \in UploadIds \ usedIds :
             /\ multis' = Put(multis, id, [key |-> call[w].path, parts |-> Empty])
             /\ usedIds' = usedIds \cup {id}
             /\ call' = [call EXCEPT ![w].pc = "listParts", ![w].multi = id]
       \/ /\ call' = [call EXCEPT ![w] =
                        return([@ EXCEPT !.failed = "InitMulti"], "StoreError", "resolve")]
          /\ UNCHANGED <<multis, usedIds>>
    /\ UNCHANGED <<planSize, planChunk, size, objects, cur, honest, op>>

\* A resume that starts again at the first part.
resumePartNumberFirst(offset, chunkSize) == 1

\* Line 156: partNumber = int(offset/chunkSize) + 1.
resumePartNumber(offset, chunkSize) == (offset \div chunkSize) + 1

\* getAllParts, lines 309-310, then lines 147-161 of WriteStream: the offset
\* test and the resume point.  multi.ListParts() on the nil upload panics.
ListParts(w) ==
    /\ call[w].pc = "listParts"
    /\ LET c == call[w] IN
       \/ /\ c.multi = NoMulti
          /\ call' = [call EXCEPT ![w] = return(@, "panic", "panic")]
       \/ /\ c.multi \in DOMAIN multis
          /\ LET parts == storeListParts(c.multi) IN
             call' = [call EXCEPT ![w] =
                IF invalidOffset(c.offset, Len(parts), c.chunkSize, size)
                THEN return([@ EXCEPT !.listed = Len(parts)], "InvalidOffset", "offset")
                ELSE IF Len(parts) > 0
                THEN [@ EXCEPT !.pc = "read", !.listed = Len(parts),
                               !.partNumber = resumePartNumber(c.offset, c.chunkSize),
                               !.totalRead = c.offset,
                               !.parts = SubSeq(parts, 1, c.offset \div c.chunkSize)]
                ELSE [@ EXCEPT !.pc = "read", !.listed = 0, !.parts = parts]]
       \/ /\ c.multi # NoMulti
          /\ call' = [call EXCEPT ![w] =
                        return([@ EXCEPT !.failed = "ListParts"], "StoreError", "resolve")]
    /\ UNCHANGED <<planSize, planChunk, size, multis, usedIds, objects, cur, honest, op>>

\* The branch taken when a short read never stops the call.
readBranchAlwaysPut(bytesRead, readErr, totalRead, chunkSize) ==
    IF readErr THEN "error" ELSE "put"

\* The branch of lines 166-170 taken after a read: "error", "break" or "put".
readBranch(bytesRead, readErr, totalRead, chunkSize) ==
    IF readErr THEN "error"
    ELSE IF bytesRead < chunkSize /\ totalRead # size THEN "break"
    ELSE "put"

\* Lines 163-170: io.ReadFull fills buf from a reader that holds avail more
\* bytes.  It returns chunkSize bytes, or fewer when the reader ends (io.EOF,
\* io.ErrUnexpectedEOF) or fails (any other error, after k bytes).
readChunk(w, avail) ==
    LET c == call[w]
    IN  \E k \in 0 .. Min(c.chunkSize, avail), readErr \in BOOLEAN :
          /\ readErr => k < c.chunkSize
          /\ LET total == c.totalRead + k
                 br == readBranch(k, readErr, total, c.chunkSize)
                 c1 == [c EXCEPT !.totalRead = total,
                                 !.buf = StreamBytes(w, c.totalRead, k),
                                 !.readErr = readErr]
             IN  call' = [call EXCEPT ![w] =
                    CASE br = "error" -> return(c1, "ReadError", "read")
                      [] br = "break" -> return(c1, "nil", "short")
                      [] OTHER -> [c1 EXCEPT !.pc = "putPart"]]

\* A read from a reader that ends at the declared size, or before it when the
\* source ends early.
Read(w) ==
    /\ call[w].pc = "read"
    /\ readChunk(w, IF call[w].totalRead < size THEN size - call[w].totalRead ELSE 0)
    /\ UNCHANGED <<planSize, planChunk, size, multis, usedIds, objects, cur, honest, op>>

\* A read from a reader that may hold up to MaxExtra bytes past the declared size.
ReadLong(w) ==
    /\ call[w].pc = "read"
    /\ readChunk(w, IF call[w].totalRead < size + MaxExtra
                    THEN size + MaxExtra - call[w].totalRead ELSE 0)
    /\ UNCHANGED <<planSize, planChunk, size, multis, usedIds, objects, cur, honest, op>>

\* Lines 171-182: multi.PutPart of the buffer as part partNumber.
PutPart(w) ==
    /\ call[w].pc = "putPart"
    /\ LET c == call[w] IN
       \/ /\ c.multi \in DOMAIN multis
          /\ multis' = storePutPart(c.multi, c.partNumber, c.buf)
          /\ call' = [call EXCEPT ![w] =
                [@ EXCEPT !.parts = Append(c.parts, [N |-> c.partNumber,
                                                     Size |-> Len(c.buf),
                                                     ETag |-> c.buf]),
                          !.puts = @ + 1,
                          !.pc = IF c.totalRead = size THEN "complete" ELSE "read",
                          !.partNumber = IF c.totalRead = size THEN @ ELSE @ + 1]]
       \/ /\ call' = [call EXCEPT ![w] =
                        return([@ EXCEPT !.failed = "PutPart"], "StoreError", "put")]
          /\ UNCHANGED multis
    /\ UNCHANGED <<planSize, planChunk, size, usedIds, objects, cur, honest, op>>

\* Lines 178-179 and 186: the value of multi.Complete(parts) is dropped.
completeResult(ok) == "nil"

\* Lines 177-180: multi.Complete(parts), then the return of line 186.
Complete(w) ==
    /\ call[w].pc = "complete"
    /\ LET c == call[w] IN
       \/ /\ storeCanComplete(c.multi, c.parts)
          /\ objects' = Put(objects, multis[c.multi].key, storeAssemble(c.parts))
          /\ multis' = Drop(multis, c.multi)
          /\ call' = [call EXCEPT ![w] =
                        return([@ EXCEPT !.completed = TRUE], completeResult(TRUE), "complete")]
       \/ /\ call' = [call EXCEPT ![w] =
                        return([@ EXCEPT !.failed = "Complete"], completeResult(FALSE), "complete")]
          /\ UNCHANGED <<multis, objects>>
    /\ UNCHANGED <<planSize, planChunk, size, usedIds, cur, honest, op>>

----------------------------------------------------------------------------
(* CurrentSize, lines 191-202, with getAllParts and getHighestIDMulti *)

\* The whole call: ListMulti, InitMulti when nothing is listed, ListParts, and
\* the size from the parts list.  Each store call may fail.
CurrentSize(path) ==
    /\ \A w \in Writers : call[w].pc \in {"idle", "done"}
    /\ LET listing == storeListMulti(path)
           m == highestIDMulti(path, listing)
       IN  \/ \* ListMulti fails, or InitMulti, or ListParts of the upload found
              /\ cur' = [path |-> path, result |-> "StoreError", value |-> 0]
              /\ UNCHANGED <<multis, usedIds>>
           \/ \* an upload of another key is listed and none of this one: nil
              /\ listing # {} /\ m = NoMulti
              /\ cur' = [path |-> path, result |-> "panic", value |-> 0]
              /\ UNCHANGED <<multis, usedIds>>
           \/ /\ listing # {} /\ m # NoMulti
              /\ cur' = [path |-> path, result |-> "nil",
                         value |-> currentSizeOf(storeListParts(m))]
              /\ UNCHANGED <<multis, usedIds>>
           \/ \* nothing listed: InitMulti, then ListParts of the new upload
              /\ listing = {}
              /\ \E id \in UploadIds \ usedIds :
                    /\ multis' = Put(multis, id, [key |-> path, parts |-> Empty])
                    /\ usedIds' = usedIds \cup {id}
              /\ \/ cur' = [path |-> path, result |-> "nil", value |-> currentSizeOf(<<>>)]
                 \/ cur' = [path |-> path, result |-> "StoreError", value |-> 0]
    /\ UNCHANGED <<planSize, planChunk, size, objects, call, honest, op>>

----------------------------------------------------------------------------
(* Spec: WriteStream and CurrentSize calls, one at a time *)

Init ==
    /\ planSize = 0
    /\ planChunk = 0
    /\ size \in 0 .. MaxSize
    /\ \/ multis = Empty /\ usedIds = {}
       \/ \* an upload of key "ab" left open by an earlier write to that key
          /\ multis = Put(Empty, 1, [key |-> KeyAB, parts |-> Empty])
          /\ usedIds = {1}
    /\ objects = Empty
    /\ call = [w \in {1} |-> Idle]
    /\ cur = NoCur
    /\ honest = TRUE
    /\ op = NoOp

Next ==
    \/ \E w \in Writers, path \in WritePaths, offset \in 0 .. size + MaxBeyond :
          Begin(w, path, offset)
    \/ \E w \in Writers : ListMulti(w)
    \/ \E w \in Writers : InitMulti(w)
    \/ \E w \in Writers : ListParts(w)
    \/ \E w \in Writers : Read(w)
    \/ \E w \in Writers : PutPart(w)
    \/ \E w \in Writers : Complete(w)
    \/ \E path \in WritePaths : CurrentSize(path)

Spec == Init /\ [][Next]_vars

----------------------------------------------------------------------------
(* SpecLong: as Spec, with readers that may run past the declared size *)

InitLong ==
    /\ planSize = 0
    /\ planChunk = 0
    /\ size \in 0 .. MaxSize
    /\ multis = Empty
    /\ usedIds = {}
    /\ objects = Empty
    /\ call = [w \in {1} |-> Idle]
    /\ cur = NoCur
    /\ honest = TRUE
    /\ op = NoOp

NextLong ==
    \/ \E w \in Writers, path \in WritePaths, offset \in 0 .. size + MaxBeyond :
          Begin(w, path, offset)
    \/ \E w \in Writers : ListMulti(w)
    \/ \E w \in Writers : InitMulti(w)
    \/ \E w \in Writers : ListParts(w)
    \/ \E w \in Writers : ReadLong(w)
    \/ \E w \in Writers : PutPart(w)
    \/ \E w \in Writers : Complete(w)

SpecLong == InitLong /\ [][NextLong]_vars

----------------------------------------------------------------------------
(* SpecConc: two writers, one WriteStream call each on one path, interleaved *)

InitConc ==
    /\ planSize = 0
    /\ planChunk = 0
    /\ size \in 0 .. MaxConcSize
    /\ multis = Empty
    /\ usedIds = {}
    /\ objects = Empty
    /\ call = [w \in {1, 2} |-> Idle]
    /\ cur = NoCur
    /\ honest = TRUE
    /\ op = NoOp

NextConc ==
    \/ \E w \in Writers, path \in WritePaths, offset \in 0 .. size :
          BeginConc(w, path, offset)
    \/ \E w \in Writers : ListMulti(w)
    \/ \E w \in Writers : InitMulti(w)
    \/ \E w \in Writers : ListParts(w)
    \/ \E w \in Writers : Read(w)
    \/ \E w \in Writers : PutPart(w)
    \/ \E w \in Writers : Complete(w)

SpecConc == InitConc /\ [][NextConc]_vars

----------------------------------------------------------------------------
(* The store's object calls, as the driver uses them *)

\* Bucket.List(prefix, "", "", listPartsMax): the keys that start with prefix.
\* (The store returns at most listPartsMax keys a call; the buckets of the
\* model hold fewer.)
storeList(objs, prefix) == {k \in DOMAIN objs : IsPrefix(prefix, k)}

\* Bucket.DelMulti: the keys named are deleted.
storeDelMulti(objs, ks) == [k \in DOMAIN objs \ ks |-> objs[k]]

\* The index of the first "/" of s after position from, 0 when there is none.
NextSlash(s, from) ==
    LET at == {i \in from + 1 .. Len(s) : s[i] = "/"}
    IN  IF at = {} THEN 0 ELSE MinOf(at)

\* Bucket.List(prefix, "/", ...): Contents are the keys under prefix with no
\* further "/"; CommonPrefixes are the keys' prefixes up to the next "/".
storeListDelim(objs, prefix) ==
    LET under == storeList(objs, prefix)
    IN  [Contents |-> {k \in under : NextSlash(k, Len(prefix)) = 0},
         CommonPrefixes |-> {SubSeq(k, 1, NextSlash(k, Len(prefix))) :
                                k \in {j \in under : NextSlash(j, Len(prefix)) # 0}}]

----------------------------------------------------------------------------
(* The facade: List, GetContent, PutContent, Delete, Move *)

\* List, lines 206-238, when the store's calls succeed: the files and the
\* directories (the common prefixes without their trailing "/").
list(objs, path) ==
    LET p == IF path[Len(path)] # "/" THEN path \o <<"/">> ELSE path
        r == storeListDelim(objs, p)
    IN  [files |-> r.Contents,
         directories |-> {SubSeq(c, 1, Len(c) - 1) : c \in r.CommonPrefixes}]

\* The parent of a path: the path up to its last "/" ("/" for a top-level path).
Parent(path) ==
    LET at == MaxOf({i \in 1 .. Len(path) : path[i] = "/"})
    IN  IF at = 1 THEN <<"/">> ELSE SubSeq(path, 1, at - 1)

\* The error of Bucket.Get when the store itself does not fail.
storeGetErr(objs, path) == IF path \in DOMAIN objs THEN "none" ELSE "NoSuchKey"

\* GetContent, lines 108-114: storeErr is the error of Bucket.Get ("none",
\* "NoSuchKey", or "Other" for an authentication or network failure).
getContent(objs, path, storeErr) ==
    IF storeErr # "none"
    THEN [result |-> "PathNotFound", content |-> <<>>]
    ELSE [result |-> "nil", content |-> objs[path]]

\* The error of Bucket.GetResponseWithHeaders for "Range: bytes=offset-" when
\* the store itself does not fail: a range that starts at or after the end of
\* the object cannot be satisfied.
storeRangeErr(objs, path, offset) ==
    IF path \notin DOMAIN objs THEN "NoSuchKey"
    ELSE IF offset >= Len(objs[path]) THEN "InvalidRange"
    ELSE "none"

\* ReadStream, lines 123-132: storeErr is the error of the ranged get; the
\* body returned holds the bytes of the object from offset on.
readStream(objs, path, offset, storeErr) ==
    IF storeErr # "none"
    THEN [result |-> "PathNotFound", content |-> <<>>]
    ELSE [result |-> "nil", content |-> SubSeq(objs[path], offset + 1, Len(objs[path]))]

\* Line 270: return nil when Bucket.DelMulti fails.
delMultiFailed == "nil"

\* The loop of Delete, lines 263-277, entered with a non-empty listing: every
\* way it can end, as the objects left and the result.
RECURSIVE deleteLoop(_, _)
deleteLoop(objs, path) ==
    LET left == storeDelMulti(objs, storeList(objs, path))
    IN  {[objects |-> objs, result |-> delMultiFailed]}
        \cup {[objects |-> left, result |-> "StoreError"]}
        \cup (IF storeList(left, path) = {}
              THEN {[objects |-> left, result |-> "nil"]}
              ELSE deleteLoop(left, path))

\* Delete, lines 255-280: every way the call can end.
delete(objs, path) ==
    \* the first Bucket.List fails or lists nothing
    {[objects |-> objs, result |-> "PathNotFound"]}
    \cup (IF storeList(objs, path) # {} THEN deleteLoop(objs, path) ELSE {})

PutContent(path, content) ==
    /\ \/ /\ objects' = Put(objects, path, content)
          /\ op' = [pc |-> "PutContent", path |-> path, result |-> "nil"]
       \/ /\ objects' = objects
          /\ op' = [pc |-> "PutContent", path |-> path, result |-> "StoreError"]
    /\ UNCHANGED <<planSize, planChunk, size, multis, usedIds, call, cur, honest>>

GetContent(path) ==
    /\ \E storeErr \in {storeGetErr(objects, path), "Other"} :
          /\ op' = [pc |-> "GetContent", path |-> path, storeErr |-> storeErr,
                    result |-> getContent(objects, path, storeErr).result,
                    content |-> getContent(objects, path, storeErr).content]
    /\ UNCHANGED <<planSize, planChunk, size, multis, usedIds, objects, call, cur, honest>>

ReadStream(path, offset) ==
    /\ \E storeErr \in {storeRangeErr(objects, path, offset), "Other"} :
          /\ op' = [pc |-> "ReadStream", path |-> path, offset |-> offset,
                    storeErr |-> storeErr,
                    result |-> readStream(objects, path, offset, storeErr).result,
                    content |-> readStream(objects, path, offset, storeErr).content]
    /\ UNCHANGED <<planSize, planChunk, size, multis, usedIds, objects, call, cur, honest>>

Delete(path) ==
    /\ \E r \in delete(objects, path) :
          /\ objects' = r.objects
          /\ op' = [pc |-> "Delete", path |-> path, result |-> r.result,
                    found |-> storeList(objects, path) # {}]
    /\ UNCHANGED <<planSize, planChunk, size, multis, usedIds, call, cur, honest>>

\* Move, lines 242-252: Bucket.PutCopy, then Delete of the source.
Move(sourcePath, destPath) ==
    /\ \/ \* PutCopy fails: the source is missing, or the store fails
          /\ objects' = objects
          /\ op' = [pc |-> "Move", path |-> sourcePath, dest |-> destPath,
                    result |-> "PathNotFound", moved |-> <<>>]
       \/ /\ sourcePath \in DOMAIN objects
          /\ \E r \in delete(Put(objects, destPath, objects[sourcePath]), sourcePath) :
                /\ objects' = r.objects
                /\ op' = [pc |-> "Move", path |-> sourcePath, dest |-> destPath,
                          result |-> r.result, moved |-> objects[sourcePath]]
    /\ UNCHANGED <<planSize, planChunk, size, multis, usedIds, call, cur, honest>>

----------------------------------------------------------------------------
(* SpecObj: the facade's calls on the bucket's objects, one at a time *)

InitObj ==
    /\ planSize = 0
    /\ planChunk = 0
    /\ size = 0
    /\ multis = Empty
    /\ usedIds = {}
    /\ objects = Empty
    /\ call = [w \in {1} |-> Idle]
    /\ cur = NoCur
    /\ honest = TRUE
    /\ op = NoOp

NextObj ==
    \/ \E path \in Keys, content \in Contents : PutContent(path, content)
    \/ \E path \in Keys : GetContent(path)
    \/ \E path \in Keys, offset \in 0 .. MaxReadOffset : ReadStream(path, offset)
    \/ \E path \in Keys : Delete(path)
    \/ \E src \in Keys, dst \in Keys : Move(src, dst)

SpecObj == InitObj /\ [][NextObj]_vars

----------------------------------------------------------------------------
(* SpecChunk: the chunk-size loop applied to every declared size *)

InitChunk ==
    /\ planSize \in 0 .. MaxPlanSize
    /\ planChunk = 0
    /\ size = 0
    /\ multis = Empty
    /\ usedIds = {}
    /\ objects = Empty
    /\ call = [w \in {1} |-> Idle]
    /\ cur = NoCur
    /\ honest = TRUE
    /\ op = NoOp

Plan ==
    /\ planChunk = 0
    /\ planChunk' = deriveChunkSize(planSize)
    /\ UNCHANGED <<planSize, size, multis, usedIds, objects, call, cur, honest, op>>

SpecChunk == InitChunk /\ [][Plan]_vars

----------------------------------------------------------------------------
(* The claims *)

\* All the bytes held by the open uploads of path.
sessionBytes(path) ==
    LET ids == {id \in DOMAIN multis : multis[id].key = path}
        ns(id) == SortedSeq(DOMAIN multis[id].parts)
        one(id) == Len(Flatten([i \in 1 .. Len(ns(id)) |-> multis[id].parts[ns(id)[i]]]))
        RECURSIVE sum(_)
        sum(S) == IF S = {} THEN 0 ELSE one(MinOf(S)) + sum(S \ {MinOf(S)})
    IN  sum(ids)

\* C1: round trip.  When every call so far resumed at the byte count already
\* committed and supplied the content's bytes from there, a call whose
\* completion the store accepted leaves the content's bytes as the object.
C1_RoundTrip ==
    \A w \in Writers :
        (honest /\ call[w].pc = "done" /\ call[w].completed)
            => /\ call[w].path \in DOMAIN objects
               /\ objects[call[w].path] = Original(size)

\* C2: CurrentSize after a WriteStream call that completed the write returns
\* the declared size.
C2_CurrentSizeAfterComplete ==
    \A w \in Writers :
        (call[w].pc = "done" /\ call[w].completed
            /\ cur.path = call[w].path /\ cur.result = "nil")
            => cur.value = size

\* C3: CurrentSize after a WriteStream call that ended on a short read with
\* fewer than size bytes read returns the bytes held by the upload's parts; when
\* every call resumed at the committed byte count, that is the offset plus one
\* chunkSize for each part the call uploaded, never more than was read.
C3_CurrentSizeAfterShortRead ==
    \A w \in Writers :
        LET c == call[w] IN
        (c.pc = "done" /\ c.exit = "short" /\ c.totalRead < size
            /\ cur.path = c.path /\ cur.result = "nil")
            => /\ cur.value = sessionBytes(c.path)
               /\ honest => /\ cur.value = c.offset + c.puts * c.chunkSize
                            /\ cur.value <= c.totalRead
                            /\ c.totalRead - cur.value < c.chunkSize

\* C3 witness: a short read left bytes that were read and not uploaded, and
\* CurrentSize reports the parts before them.
C3_Witness ==
    \E w \in Writers :
        /\ call[w].pc = "done" /\ call[w].exit = "short" /\ honest
        /\ call[w].puts > 0
        /\ cur.path = call[w].path /\ cur.result = "nil"
        /\ cur.value > 0 /\ cur.value < call[w].totalRead /\ call[w].totalRead < size

\* C4: a call whose offset exceeds (number of existing parts) * chunkSize, or
\* is below size and no multiple of chunkSize, returns InvalidOffset, and has
\* uploaded no part and completed no upload.
C4_InvalidOffset ==
    \A w \in Writers :
        LET c == call[w] IN
        (c.listed >= 0
            /\ (\/ c.offset > c.listed * c.chunkSize
                \/ (c.offset < size /\ c.offset % c.chunkSize # 0)))
            => /\ c.pc = "done" /\ c.result = "InvalidOffset"
               /\ c.puts = 0 /\ ~c.completed

\* C4 witness: an offset within the existing parts and below size is rejected
\* for its alignment alone.
C4_Witness ==
    \E w \in Writers :
        /\ call[w].pc = "done" /\ call[w].result = "InvalidOffset"
        /\ call[w].listed > 0
        /\ call[w].offset <= call[w].listed * call[w].chunkSize
        /\ call[w].offset < size

\* C5: the chunk size derived is at least the minimum part size and makes
\* ceil(size / chunkSize) at most the maximum part count.
C5_ChunkSizeBounds ==
    planChunk # 0
        => /\ planChunk >= minChunkSize
           /\ CeilDiv(planSize, planChunk) <= listPartsMax

\* C5 witness: a size that takes more than the maximum part count of minimum
\* chunks, with its chunk size doubled.
C5_Witness ==
    /\ planSize = listPartsMax * minChunkSize + 1
    /\ planChunk = 2 * minChunkSize

\* C6 as claimed: the chunk size derived is the smallest minChunkSize * 2^k
\* with ceil(size / chunkSize) at most the maximum part count, so the minimum
\* when size is listPartsMax * minChunkSize.
C6_SmallestForCeil ==
    planChunk # 0
        => /\ \E k \in 0 .. MaxDoublings :
                 /\ planChunk = minChunkSize * Pow2(k)
                 /\ CeilDiv(planSize, planChunk) <= listPartsMax
                 /\ \A j \in 0 .. k - 1 :
                       CeilDiv(planSize, minChunkSize * Pow2(j)) > listPartsMax
           /\ planSize = listPartsMax * minChunkSize => planChunk = minChunkSize

\* C6 as amended: the chunk size derived is the smallest minChunkSize * 2^k
\* with size / chunkSize (rounded down) below the maximum part count, so twice
\* the minimum when size is listPartsMax * minChunkSize.
C6_SmallestForFloor ==
    planChunk # 0
        => /\ \E k \in 0 .. MaxDoublings :
                 /\ planChunk = minChunkSize * Pow2(k)
                 /\ planSize \div planChunk < listPartsMax
                 /\ \A j \in 0 .. k - 1 :
                       planSize \div (minChunkSize * Pow2(j)) >= listPartsMax
           /\ planSize = listPartsMax * minChunkSize => planChunk = 2 * minChunkSize

\* C6 witness: the size that is exactly the maximum part count of minimum chunks.
C6_Witness ==
    /\ planSize = listPartsMax * minChunkSize
    /\ planChunk = 2 * minChunkSize

\* C7: a call in which the store failed a part upload or the completion
\* returns an error, and the upload stays open.
C7_StoreFailureReturned ==
    \A w \in Writers :
        (call[w].pc = "done" /\ call[w].failed \in {"PutPart", "Complete"})
            => /\ call[w].result = "StoreError"
               /\ \E id \in DOMAIN multis : multis[id].key = call[w].path

\* C8: a Move between distinct paths that returns success leaves the
\* destination with the source's content, and GetContent of the source then
\* yields PathNotFound.
C8_MoveMoves ==
    (op.pc = "Move" /\ op.result = "nil" /\ op.path # op.dest)
        => /\ op.dest \in DOMAIN objects
           /\ objects[op.dest] = op.moved
           /\ getContent(objects, op.path, storeGetErr(objects, op.path)).result
                 = "PathNotFound"

\* C9: after a Delete that returns success no object is at path or under it,
\* and List of the parent names neither; a Delete that finds no object
\* returns PathNotFound.
C9_DeleteDeletes ==
    /\ (op.pc = "Delete" /\ op.result = "nil")
          => /\ \A k \in DOMAIN objects :
                   k # op.path /\ ~IsPrefix(op.path \o <<"/">>, k)
             /\ op.path \notin list(objects, Parent(op.path)).files
             /\ op.path \notin list(objects, Parent(op.path)).directories
    /\ (op.pc = "Delete" /\ ~op.found) => op.result = "PathNotFound"

\* C10: a call that has returned has closed its reader exactly once, and a
\* call still running has not closed it.
C10_ReaderClosedOnce ==
    \A w \in Writers :
        /\ call[w].pc = "done" => call[w].closed = 1
        /\ call[w].pc \notin {"idle", "done"} => call[w].closed = 0

\* C10 witness: a call that returned the error of a part upload, after an
\* earlier part went through, with its reader closed.
C10_Witness ==
    \E w \in Writers :
        /\ call[w].pc = "done" /\ call[w].exit = "put" /\ call[w].puts > 0
        /\ call[w].closed = 1

\* C11: session resolution that returned without error hands the call an open
\* upload whose key equals path exactly, the one with the highest UploadId
\* among the uploads of that key, also when the listing holds only uploads of
\* other keys that share the prefix (a new upload is then initiated).
C11_ResolvedSessionHasKey ==
    \A w \in Writers :
        call[w].pc = "listParts"
            => /\ call[w].multi \in DOMAIN multis
               /\ multis[call[w].multi].key = call[w].path
               /\ \A id \in DOMAIN multis :
                     multis[id].key = call[w].path => id <= call[w].multi

\* C12: a part upload of a call accepted at offset O writes the part numbered
\* O / chunkSize + 1 + (the parts the call has uploaded so far), so the call's
\* uploads are numbered consecutively from O / chunkSize + 1, and it leaves
\* every part with a lower number as it was.
C12_UploadsFromResumePoint ==
    [][\A w \in Writers :
          (call[w].pc = "putPart" /\ call[w].multi \in DOMAIN multis)
              => LET c == call[w]
                     first == (c.offset \div c.chunkSize) + 1
                     before == multis[c.multi].parts
                 IN  /\ c.multi \in DOMAIN multis'
                     /\ \A n \in DOMAIN before :
                           n < first
                              => /\ n \in DOMAIN multis'[c.multi].parts
                                 /\ multis'[c.multi].parts[n] = before[n]
                     /\ \A n \in DOMAIN multis'[c.multi].parts :
                           (n \notin DOMAIN before \/ call'[w].puts # c.puts)
                              => \/ n = first + c.puts
                                 \/ (n \in DOMAIN before
                                       /\ multis'[c.multi].parts[n] = before[n])
                     /\ call'[w].puts # c.puts
                           => /\ first + c.puts \in DOMAIN multis'[c.multi].parts
                              /\ multis'[c.multi].parts[first + c.puts] = c.buf]_vars

\* C12 witness: size 12, chunk 5, two parts present, a call resumed at offset
\* 10 has uploaded one part, part 3, and nothing else.
C12_Witness ==
    \E w \in Writers :
        /\ size = 12 /\ call[w].chunkSize = 5 /\ call[w].offset = 10
        /\ call[w].listed = 2 /\ call[w].pc = "complete" /\ call[w].puts = 1
        /\ call[w].partNumber = 3
        /\ DOMAIN multis[call[w].multi].parts = {1, 2, 3}

\* C13: GetContent and ReadStream return PathNotFound when the store reports
\* the object as not found, and the store's own error when the store fails in
\* another way.
C13_OtherFailurePassedThrough ==
    op.pc \in {"GetContent", "ReadStream"}
        => /\ op.storeErr = "NoSuchKey" => op.result = "PathNotFound"
           /\ op.storeErr = "Other" => op.result = "StoreError"

\* C14: the parts of every open upload of a written path are numbered
\* contiguously from 1, and every part but the highest-numbered one has
\* exactly chunkSize bytes.
C14_PartsContiguousUniform ==
    \A id \in DOMAIN multis :
        multis[id].key \in WritePaths
            => LET ps == multis[id].parts
               IN  /\ DOMAIN ps = 1 .. Cardinality(DOMAIN ps)
                   /\ \A n \in DOMAIN ps :
                         n < Cardinality(DOMAIN ps) => Len(ps[n]) = deriveChunkSize(size)

\* C15: a call about to issue multi.Complete has just uploaded a part with the
\* running total equal to the declared size, and the parts list it passes is
\* numbered 1..n with sizes that sum to the declared size, also when the call
\* was resumed at offset = size.
C15_CompletionPartsList ==
    \A w \in Writers :
        call[w].pc = "complete"
            => LET ps == call[w].parts
               IN  /\ call[w].puts >= 1
                   /\ call[w].totalRead = size
                   /\ \A i \in 1 .. Len(ps) : ps[i].N = i
                   /\ Len(Flatten([i \in 1 .. Len(ps) |-> ps[i].ETag])) = size

\* C16: a read that returns fewer than chunkSize bytes with the running total
\* different from the declared size ends the call with success, and a read
\* that fails (other than by the end of the stream) ends it with that error;
\* in both cases the buffer is not uploaded and the upload is not completed.
C16_ShortReadStops ==
    [][\A w \in Writers :
          (call[w].pc = "read" /\ call'[w] # call[w])
              => LET c == call[w]
                     d == call'[w]
                     k == d.totalRead - c.totalRead
                     stopped == /\ d.pc = "done"
                                /\ d.puts = c.puts /\ ~d.completed
                                /\ multis' = multis /\ objects' = objects
                 IN  /\ d.readErr => (stopped /\ d.result = "ReadError")
                     /\ (~d.readErr /\ k < c.chunkSize /\ d.totalRead # size)
                           => (stopped /\ d.result = "nil")]_vars

\* C16 witness: a call returned success after a short read, with bytes read
\* that are in no part of the upload, which is still open.
C16_Witness ==
    \E w \in Writers :
        LET c == call[w] IN
        /\ c.pc = "done" /\ c.exit = "short" /\ c.result = "nil" /\ ~c.readErr
        /\ c.totalRead # size
        /\ c.totalRead > c.offset + c.puts * c.chunkSize
        /\ \E id \in DOMAIN multis :
              /\ multis[id].key = c.path
              /\ Cardinality(DOMAIN multis[id].parts) * c.chunkSize < c.totalRead

\* C17: a call that follows, on the same path, a call that stopped on a short
\* read or failed at a read or a part upload with k parts in the upload, and
\* whose offset is k * chunkSize, is not rejected with InvalidOffset once it
\* has listed the parts, and goes on in the same upload at part k + 1.
C17_ResumeAccepted ==
    \A w \in Writers :
        LET c == call[w] IN
        (c.resume.session # NoMulti /\ c.listed >= 0)
            => /\ c.result # "InvalidOffset"
               /\ c.listed = c.resume.k
               /\ c.pc \in {"read", "putPart"}
                     => /\ c.multi = c.resume.session
                        /\ c.partNumber = c.resume.k + 1 + c.puts
               /\ c.pc = "complete"
                     => /\ c.multi = c.resume.session
                        /\ c.partNumber = c.resume.k + c.puts

\* C17 witness: a call resumed after an early stop with one part in the upload
\* has uploaded part 2 to it and goes on to read for part 3.
C17_Witness ==
    \E w \in Writers :
        LET c == call[w] IN
        /\ c.resume.session # NoMulti /\ c.resume.k = 1
        /\ c.offset = c.chunkSize /\ c.listed = 1
        /\ c.pc = "read" /\ c.puts = 1 /\ c.partNumber = 3
        /\ c.multi = c.resume.session
        /\ DOMAIN multis[c.multi].parts = {1, 2}

\* C18: two WriteStream calls to the same path are not mutually excluded: a
\* writer that has not yet made its call can start it in every reachable
\* state, whatever step the other writer's call is at.
C18_NoMutualExclusion ==
    \A w \in Writers :
        call[w].pc = "idle" => ENABLED BeginConc(w, KeyA, 0)

\* C18 witness: both calls resolved the same upload and uploaded both parts
\* to it, interleaved; the upload holds part 1 of writer 1's stream and part
\* 2 of writer 2's stream, the bytes of neither writer.
C18_Witness ==
    /\ DOMAIN call = {1, 2}
    /\ call[1].pc = "complete" /\ call[2].pc = "complete"
    /\ call[1].multi = call[2].multi
    /\ call[1].multi \in DOMAIN multis
    /\ multis[call[1].multi].key = KeyA
    /\ LET ps == multis[call[1].multi].parts
       IN  /\ DOMAIN ps = {1, 2}
           /\ ps[1] = StreamBytes(1, 0, 5)
           /\ ps[2] = StreamBytes(2, 5, 5)
           /\ Flatten(<<ps[1], ps[2]>>) # StreamBytes(1, 0, 10)
           /\ Flatten(<<ps[1], ps[2]>>) # StreamBytes(2, 0, 10)

\* C19: a CurrentSize call leaves the store's uploads, their parts and the
\* objects as they were, also for a path with no open upload.
C19_CurrentSizePure ==
    [][(call' = call /\ cur'.result # "none")
          => (multis' = multis /\ objects' = objects)]_vars

\* C20: a Delete call leaves unchanged every object whose key is neither path
\* nor under path followed by "/", such as a sibling whose key starts with
\* the characters of path.
C20_DeleteOnlyUnderPath ==
    [][op'.pc = "Delete"
          => \A k \in DOMAIN objects :
                (k # op'.path /\ ~IsPrefix(op'.path \o <<"/">>, k))
                   => (k \in DOMAIN objects' /\ objects'[k] = objects[k])]_vars

====
